---- MODULE Spec2Model ----
(***************************************************************************)
(* Live-session relay of digiBoard (server/index.js): the Socket.IO        *)
(* handlers that arbitrate which teacher is live, keep the per-teacher     *)
(* student sets and rooms, fan whiteboard updates out and clean up on      *)
(* disconnect.  One action per handler; each action is the whole handler.  *)
(* The REST routes of the saved sessions (server/routes/sessions.js) follow *)
(* the relay and its clients.                                              *)
(***************************************************************************)
EXTENDS Bags, FiniteSets, Integers, Sequences, TLC

\* ---------------------------------------------------------------- bounds
MaxConns == 2
MaxTeachers == 1
MaxPayloads == 1
MaxSends == 2
MaxInFlight == 3
MaxUsers == 2
MaxSessions == 2

TeacherNames == <<"t1", "t2", "t3", "t4">>
PayloadNames == <<"[]", "[p1]", "[p2]">>

\* socket objects the server may hold at one time
Conns == 1..MaxConns
\* teacherId is "an opaque string supplied by the client": the empty string
\* and MaxTeachers non-empty ones
TeacherIds == {""} \cup {TeacherNames[i] : i \in 1..MaxTeachers}
\* data argument of whiteboardUpdate: { teacherId, whiteboardData }
WhiteboardUpdates ==
    [teacherId : TeacherIds, whiteboardData : {PayloadNames[i] : i \in 1..MaxPayloads}]

\* JavaScript null (distinct from every teacher id)
Null == "null"

\* JavaScript undefined, as the value of a missing property
Undefined == "undefined"

\* whiteboardUpdate emitted without an argument, and with a string argument
NoPayload == [payload |-> "undefined"]
StringPayload == [payload |-> "string"]
\* every data argument a client can put on the wire
Payloads == WhiteboardUpdates \cup {NoPayload, StringPayload}

\* a socket that has been closed
Gone == 0

\* text of the liveError notice
LiveErrorMessage == "Another teacher is currently live. Please try again later."

VARIABLES
    connected,          \* sockets of the io namespace (open connections)
    liveTeachers,       \* Map teacherId -> Set of student sockets
    currentLiveTeacher, \* the currently live teacher, or Null
    currentTeacherId,   \* per-connection closure variable
    isStudent,          \* per-connection closure variable
    rooms,              \* adapter rooms: teacherId -> sockets in `teacher-${teacherId}`
    sent,               \* bag of the messages emitted by the last handler
    lastOp,             \* the message the last handler processed
    originator,         \* teacherId -> socket whose startLive set the entry (Gone once closed)
    acceptedRun,        \* ids whose startLive was accepted since the last stopLive/disconnect
    crashed,            \* the process died of an uncaught exception
    net,                \* the sockets' channels and the client components at their ends
    lastPresence,       \* the last teacherOnline / teacherOffline passed to io.emit
    Session,            \* the Session collection: _id -> document
    res                 \* the last HTTP request of /api/sessions and its response

vars == <<connected, liveTeachers, currentLiveTeacher, currentTeacherId,
          isStudent, rooms, sent, lastOp, originator, acceptedRun, crashed, net,
          lastPresence, Session, res>>

\* the state of the REST routes
restVars == <<Session, res>>

\* ------------------------------------------------------- JavaScript helpers
\* truthiness of a string-or-null value: `if (x)`
Truthy(x) == x # Null /\ x # ""

\* Map.prototype.has / set / delete
MapHas(m, k) == k \in DOMAIN m
MapSet(m, k, v) == [x \in DOMAIN m \cup {k} |-> IF x = k THEN v ELSE m[x]]
MapDelete(m, k) == [x \in DOMAIN m \ {k} |-> m[x]]

\* outbound events
Msg(to, ev, data) == [to |-> to, ev |-> ev, data |-> data]
TeacherStatus(teacherId) == [teacherId |-> teacherId]
TeacherOnline(to, teacherId) == Msg(to, "teacherOnline", TeacherStatus(teacherId))
TeacherOffline(to, teacherId) == Msg(to, "teacherOffline", TeacherStatus(teacherId))
LiveError(to) == Msg(to, "liveError", [message |-> LiveErrorMessage])
WhiteboardUpdateMsg(to, data) == Msg(to, "whiteboardUpdate", data)

\* socket.emit / io.emit / socket.broadcast.to(room).emit
SocketEmit(msg) == SetToBag({msg})
IoEmit(sockets, ev, data) == SetToBag({Msg(s, ev, data) : s \in sockets})
BroadcastTo(socket, room, ev, data) ==
    SetToBag({Msg(s, ev, data) : s \in rooms[room] \ {socket}})

\* teacherId and whiteboardData are Null for a message without that field
Op(name, socket, teacherId, whiteboardData) ==
    [op |-> name, socket |-> socket, teacherId |-> teacherId,
     whiteboardData |-> whiteboardData]

\* --------------------------------------------------------- REST requests
StudentNames == <<"s1", "s2", "s3", "s4">>

\* req.user as the auth middleware decodes it from the token: { userId, role }
Users ==
    [userId : {StudentNames[i] : i \in 1..MaxUsers}, role : {"student"}]
    \cup [userId : {TeacherNames[i] : i \in 1..MaxUsers}, role : {"teacher"}]

\* a request without a valid token
NoToken == [userId |-> Undefined, role |-> Undefined]

\* the Authorization header of a request
Tokens == Users \cup {NoToken}

\* teacherId of the body of a POST
BodyTeacherIds == {u.userId : u \in {x \in Users : x.role = "teacher"}}

\* _id of a Session document
SessionIds == 1..MaxSessions

\* the request a route answered and its answer
Response(method, user, id, status, message) ==
    [method |-> method, user |-> user, id |-> id,
     status |-> status, message |-> message]

NoResponse == Response("none", NoToken, 0, 0, Null)

\* ------------------------------------------------------------------- Init
\* a whiteboardUpdate frame on a channel, tagged with the socket that emitted
\* it and its position among that socket's emits
Frame(from, seq, data) == [from |-> from, seq |-> seq, data |-> data]

\* the React component at the client end of a socket: TeacherWhiteboard
\* (userId of localStorage, isLive), StudentWhiteboard (isTeacherLive,
\* currentTeacherId) or none; rejected records that the socket's last
\* startLive was answered with liveError
Client(role, userId, isLive, isTeacherLive, teacherId, rejected) ==
    [role |-> role, userId |-> userId, isLive |-> isLive,
     isTeacherLive |-> isTeacherLive, currentTeacherId |-> teacherId,
     rejected |-> rejected]

NoClient == Client("none", Null, FALSE, FALSE, Null, FALSE)

\* a message a client emits: event name, teacher id and whiteboard data (Null
\* for an event without that argument)
Emit(ev, teacherId, whiteboardData) ==
    [ev |-> ev, teacherId |-> teacherId, whiteboardData |-> whiteboardData]

\* no frame emitted, in flight or received, no message in flight, no
\* component mounted
EmptyNet ==
    [emitted  |-> [c \in Conns |-> 0],
     inbox    |-> [c \in Conns |-> <<>>],
     outbox   |-> [c \in Conns |-> <<>>],
     received |-> [c \in Conns |-> <<>>],
     up       |-> [c \in Conns |-> <<>>],
     down     |-> [c \in Conns |-> <<>>],
     client   |-> [c \in Conns |-> NoClient]]

\* an io.emit of teacherOnline / teacherOffline
Presence(ev, teacherId) == [ev |-> ev, teacherId |-> teacherId]

\* nothing announced yet
NoPresence == Presence("none", Null)

Init ==
    /\ connected = {}
    /\ liveTeachers = <<>>
    /\ currentLiveTeacher = Null
    /\ currentTeacherId = [c \in Conns |-> Null]
    /\ isStudent = [c \in Conns |-> FALSE]
    /\ rooms = [t \in TeacherIds |-> {}]
    /\ sent = EmptyBag
    /\ lastOp = Op("init", Gone, Null, Null)
    /\ originator = <<>>
    /\ acceptedRun = {}
    /\ crashed = FALSE
    /\ net = EmptyNet
    /\ lastPresence = NoPresence
    /\ Session = <<>>
    /\ res = NoResponse

\* sockets still referenced from some student Set
Referenced == UNION {liveTeachers[t] : t \in DOMAIN liveTeachers}

\* io.on('connection'): a new socket with fresh closure variables
connection(c) ==
    /\ ~crashed
    /\ c \notin connected
    /\ c \notin Referenced
    /\ connected' = connected \cup {c}
    /\ currentTeacherId' = [currentTeacherId EXCEPT ![c] = Null]
    /\ isStudent' = [isStudent EXCEPT ![c] = FALSE]
    /\ sent' = EmptyBag
    /\ lastOp' = Op("connection", c, Null, Null)
    /\ UNCHANGED <<liveTeachers, currentLiveTeacher, rooms, originator, acceptedRun, crashed,
                   lastPresence>>

\* checkTeacherStatus that answers with io.emit
CheckTeacherStatusSentToAll(c) ==
    IF Truthy(currentLiveTeacher)
    THEN IoEmit(connected, "teacherOnline", TeacherStatus(currentLiveTeacher))
    ELSE EmptyBag

\* socket.on('checkTeacherStatus')
CheckTeacherStatusSent(c) ==
    IF Truthy(currentLiveTeacher)
    THEN SocketEmit(TeacherOnline(c, currentLiveTeacher))
    ELSE EmptyBag

checkTeacherStatus(c) ==
    /\ c \in connected
    /\ sent' = CheckTeacherStatusSent(c)
    /\ lastOp' = Op("checkTeacherStatus", c, Null, Null)
    /\ UNCHANGED <<connected, liveTeachers, currentLiveTeacher, currentTeacherId,
                   isStudent, rooms, originator, acceptedRun, crashed, lastPresence>>

\* socket.on('startLive')
StartLiveRejected == Truthy(currentLiveTeacher)

\* startLive that announces with socket.broadcast.emit
StartLiveSentToOthers(c, teacherId) ==
    IF StartLiveRejected
    THEN SocketEmit(LiveError(c))
    ELSE IoEmit(connected \ {c}, "teacherOnline", TeacherStatus(teacherId))

StartLiveSent(c, teacherId) ==
    IF StartLiveRejected
    THEN SocketEmit(LiveError(c))
    ELSE IoEmit(connected, "teacherOnline", TeacherStatus(teacherId))

startLive(c, teacherId) ==
    /\ c \in connected
    /\ lastOp' = Op("startLive", c, teacherId, Null)
    /\ sent' = StartLiveSent(c, teacherId)
    /\ IF StartLiveRejected
       THEN UNCHANGED <<liveTeachers, currentLiveTeacher, currentTeacherId,
                       rooms, originator, acceptedRun>>
       ELSE /\ liveTeachers' = MapSet(liveTeachers, teacherId, {})
            /\ currentTeacherId' = [currentTeacherId EXCEPT ![c] = teacherId]
            /\ currentLiveTeacher' = teacherId
            /\ rooms' = [rooms EXCEPT ![teacherId] = @ \cup {c}]
            /\ originator' = MapSet(originator, teacherId, c)
            /\ acceptedRun' = acceptedRun \cup {teacherId}
    /\ lastPresence' =
         IF StartLiveRejected THEN lastPresence
         ELSE Presence("teacherOnline", teacherId)
    /\ UNCHANGED <<connected, isStudent, crashed>>

\* socket.on('stopLive')
StopLiveTable(teacherId) ==
    IF MapHas(liveTeachers, teacherId) THEN MapDelete(liveTeachers, teacherId)
    ELSE liveTeachers

StopLiveCurrent(teacherId) ==
    IF MapHas(liveTeachers, teacherId) /\ currentLiveTeacher = teacherId THEN Null
    ELSE currentLiveTeacher

\* stopLive that forgets students.forEach(leave)
StopLiveRoomsKeepStudents(c, teacherId) ==
    LET self == IF currentTeacherId[c] = teacherId THEN {c} ELSE {}
    IN  [rooms EXCEPT ![teacherId] = @ \ self]

\* stopLive whose own socket.leave sits inside the has() test
StopLiveRoomsIfLive(c, teacherId) ==
    LET students == IF MapHas(liveTeachers, teacherId) THEN liveTeachers[teacherId] ELSE {}
        self == IF MapHas(liveTeachers, teacherId) /\ currentTeacherId[c] = teacherId
                THEN {c} ELSE {}
    IN  [rooms EXCEPT ![teacherId] = (@ \ students) \ self]

\* students.forEach(leave), then the caller's own socket.leave
StopLiveRooms(c, teacherId) ==
    LET students == IF MapHas(liveTeachers, teacherId) THEN liveTeachers[teacherId] ELSE {}
        self == IF currentTeacherId[c] = teacherId THEN {c} ELSE {}
    IN  [rooms EXCEPT ![teacherId] = (@ \ students) \ self]

\* stopLive that announces teacherOffline outside the has() test
StopLiveSentAlways(c, teacherId) ==
    IoEmit(connected, "teacherOffline", TeacherStatus(teacherId))

StopLiveSent(c, teacherId) ==
    IF MapHas(liveTeachers, teacherId)
    THEN IoEmit(connected, "teacherOffline", TeacherStatus(teacherId))
    ELSE EmptyBag

stopLive(c, teacherId) ==
    /\ c \in connected
    /\ lastOp' = Op("stopLive", c, teacherId, Null)
    /\ liveTeachers' = StopLiveTable(teacherId)
    /\ currentLiveTeacher' = StopLiveCurrent(teacherId)
    /\ rooms' = StopLiveRooms(c, teacherId)
    /\ sent' = StopLiveSent(c, teacherId)
    /\ currentTeacherId' =
         IF currentTeacherId[c] = teacherId
         THEN [currentTeacherId EXCEPT ![c] = Null]
         ELSE currentTeacherId
    /\ originator' =
         IF MapHas(liveTeachers, teacherId) THEN MapDelete(originator, teacherId)
         ELSE originator
    /\ acceptedRun' = {}
    /\ lastPresence' =
         IF MapHas(liveTeachers, teacherId) THEN Presence("teacherOffline", teacherId)
         ELSE lastPresence
    /\ UNCHANGED <<connected, isStudent, crashed>>

\* joinTeacherRoom that joins the room outside the has() test
JoinTeacherRoomRoomsAlways(c, teacherId) ==
    [rooms EXCEPT ![teacherId] = @ \cup {c}]

\* socket.on('joinTeacherRoom')
JoinTeacherRoomRooms(c, teacherId) ==
    IF MapHas(liveTeachers, teacherId)
    THEN [rooms EXCEPT ![teacherId] = @ \cup {c}]
    ELSE rooms

JoinTeacherRoomTable(c, teacherId) ==
    IF MapHas(liveTeachers, teacherId)
    THEN [liveTeachers EXCEPT ![teacherId] = @ \cup {c}]
    ELSE liveTeachers

\* joinTeacherRoom that reports a teacher who is not live as an error
JoinTeacherRoomSentOrError(c, teacherId) ==
    IF MapHas(liveTeachers, teacherId)
    THEN SocketEmit(TeacherOnline(c, teacherId))
    ELSE SocketEmit(LiveError(c))

\* joinTeacherRoom that announces the teacher with io.emit
JoinTeacherRoomSentToAll(c, teacherId) ==
    IF MapHas(liveTeachers, teacherId)
    THEN IoEmit(connected, "teacherOnline", TeacherStatus(teacherId))
    ELSE EmptyBag

JoinTeacherRoomSent(c, teacherId) ==
    IF MapHas(liveTeachers, teacherId)
    THEN SocketEmit(TeacherOnline(c, teacherId))
    ELSE EmptyBag

joinTeacherRoom(c, teacherId) ==
    /\ c \in connected
    /\ lastOp' = Op("joinTeacherRoom", c, teacherId, Null)
    /\ rooms' = JoinTeacherRoomRooms(c, teacherId)
    /\ liveTeachers' = JoinTeacherRoomTable(c, teacherId)
    /\ sent' = JoinTeacherRoomSent(c, teacherId)
    /\ IF MapHas(liveTeachers, teacherId)
       THEN /\ isStudent' = [isStudent EXCEPT ![c] = TRUE]
            /\ currentTeacherId' = [currentTeacherId EXCEPT ![c] = teacherId]
       ELSE UNCHANGED <<isStudent, currentTeacherId>>
    /\ UNCHANGED <<connected, currentLiveTeacher, originator, acceptedRun, crashed,
                   lastPresence>>

\* leaveTeacherRoom that calls socket.leave inside the has() test
LeaveTeacherRoomRoomsIfLive(c, teacherId) ==
    IF MapHas(liveTeachers, teacherId)
    THEN [rooms EXCEPT ![teacherId] = @ \ {c}]
    ELSE rooms

\* socket.on('leaveTeacherRoom')
LeaveTeacherRoomRooms(c, teacherId) ==
    [rooms EXCEPT ![teacherId] = @ \ {c}]

leaveTeacherRoom(c, teacherId) ==
    /\ c \in connected
    /\ lastOp' = Op("leaveTeacherRoom", c, teacherId, Null)
    /\ liveTeachers' =
         IF MapHas(liveTeachers, teacherId)
         THEN [liveTeachers EXCEPT ![teacherId] = @ \ {c}]
         ELSE liveTeachers
    /\ rooms' = LeaveTeacherRoomRooms(c, teacherId)
    /\ currentTeacherId' =
         IF currentTeacherId[c] = teacherId
         THEN [currentTeacherId EXCEPT ![c] = Null]
         ELSE currentTeacherId
    /\ sent' = EmptyBag
    /\ UNCHANGED <<connected, currentLiveTeacher, isStudent, originator, acceptedRun, crashed,
                   lastPresence>>

\* socket.on('whiteboardUpdate')
\* data.teacherId / data.whiteboardData: a property read of a string gives
\* undefined
TeacherIdOf(data) ==
    IF data \in WhiteboardUpdates THEN data.teacherId ELSE Undefined
WhiteboardDataOf(data) ==
    IF data \in WhiteboardUpdates THEN data.whiteboardData ELSE Undefined

\* `data.teacherId` throws a TypeError when data is undefined; no handler
\* catches it
WhiteboardUpdateThrows(data) == data = NoPayload

\* room `teacher-undefined` has no member: no modelled id is "undefined"
\* whiteboardUpdate that emits to the room twice
WhiteboardUpdateSentTwice(c, data) ==
    IF data \in WhiteboardUpdates
    THEN BroadcastTo(c, data.teacherId, "whiteboardUpdate", data)
         (+) BroadcastTo(c, data.teacherId, "whiteboardUpdate", data)
    ELSE EmptyBag

WhiteboardUpdateSent(c, data) ==
    IF data \in WhiteboardUpdates
    THEN BroadcastTo(c, data.teacherId, "whiteboardUpdate", data)
    ELSE EmptyBag

whiteboardUpdate(c, data) ==
    /\ c \in connected
    /\ lastOp' = Op("whiteboardUpdate", c, TeacherIdOf(data), WhiteboardDataOf(data))
    /\ IF WhiteboardUpdateThrows(data)
       THEN \* the process exits: every socket and the in-memory state are gone
            /\ crashed' = TRUE
            /\ connected' = {}
            /\ liveTeachers' = <<>>
            /\ currentLiveTeacher' = Null
            /\ currentTeacherId' = [x \in Conns |-> Null]
            /\ isStudent' = [x \in Conns |-> FALSE]
            /\ rooms' = [t \in TeacherIds |-> {}]
            /\ sent' = EmptyBag
            /\ originator' = <<>>
            /\ acceptedRun' = {}
            /\ lastPresence' = NoPresence
       ELSE /\ sent' = WhiteboardUpdateSent(c, data)
            /\ UNCHANGED <<connected, liveTeachers, currentLiveTeacher, currentTeacherId,
                           isStudent, rooms, originator, acceptedRun, crashed,
                           lastPresence>>

\* socket.on('disconnect'): the socket has already left its rooms and the
\* namespace when the handler runs
DisconnectAsStudent(c) == Truthy(currentTeacherId[c]) /\ isStudent[c]

DisconnectAsTeacher(c) ==
    /\ Truthy(currentTeacherId[c])
    /\ ~isStudent[c]
    /\ MapHas(liveTeachers, currentTeacherId[c])

DisconnectTable(c) ==
    IF DisconnectAsStudent(c)
    THEN IF MapHas(liveTeachers, currentTeacherId[c])
         THEN [liveTeachers EXCEPT ![currentTeacherId[c]] = @ \ {c}]
         ELSE liveTeachers
    ELSE IF DisconnectAsTeacher(c)
         THEN MapDelete(liveTeachers, currentTeacherId[c])
         ELSE liveTeachers

\* disconnect that clears currentLiveTeacher for every socket not a student
DisconnectCurrentUnlessStudent(c) ==
    IF DisconnectAsStudent(c) THEN currentLiveTeacher ELSE Null

DisconnectCurrent(c) ==
    IF DisconnectAsTeacher(c) /\ currentLiveTeacher = currentTeacherId[c] THEN Null
    ELSE currentLiveTeacher

DisconnectRooms(c) ==
    LET left == [t \in TeacherIds |-> rooms[t] \ {c}]
    IN  IF DisconnectAsTeacher(c)
        THEN [left EXCEPT ![currentTeacherId[c]] = @ \ liveTeachers[currentTeacherId[c]]]
        ELSE left

DisconnectSent(c) ==
    IF DisconnectAsTeacher(c)
    THEN IoEmit(connected \ {c}, "teacherOffline", TeacherStatus(currentTeacherId[c]))
    ELSE EmptyBag

disconnect(c) ==
    /\ c \in connected
    /\ connected' = connected \ {c}
    /\ lastOp' = Op("disconnect", c, Null, Null)
    /\ liveTeachers' = DisconnectTable(c)
    /\ currentLiveTeacher' = DisconnectCurrent(c)
    /\ rooms' = DisconnectRooms(c)
    /\ sent' = DisconnectSent(c)
    /\ originator' =
         LET kept == IF DisconnectAsTeacher(c)
                     THEN MapDelete(originator, currentTeacherId[c])
                     ELSE originator
         IN  [t \in DOMAIN kept |-> IF kept[t] = c THEN Gone ELSE kept[t]]
    /\ acceptedRun' = {}
    \* the closure of a closed socket is unreachable
    /\ currentTeacherId' = [currentTeacherId EXCEPT ![c] = Null]
    /\ isStudent' = [isStudent EXCEPT ![c] = FALSE]
    /\ lastPresence' =
         IF DisconnectAsTeacher(c) THEN Presence("teacherOffline", currentTeacherId[c])
         ELSE lastPresence
    /\ UNCHANGED crashed

\* the handlers run on any input, the channels left out
Next ==
    \/ \E c \in Conns : connection(c) /\ UNCHANGED net /\ UNCHANGED restVars
    \/ \E c \in Conns : checkTeacherStatus(c) /\ UNCHANGED net /\ UNCHANGED restVars
    \/ \E c \in Conns, t \in TeacherIds : startLive(c, t) /\ UNCHANGED net /\ UNCHANGED restVars
    \/ \E c \in Conns, t \in TeacherIds : stopLive(c, t) /\ UNCHANGED net /\ UNCHANGED restVars
    \/ \E c \in Conns, t \in TeacherIds : joinTeacherRoom(c, t) /\ UNCHANGED net /\ UNCHANGED restVars
    \/ \E c \in Conns, t \in TeacherIds : leaveTeacherRoom(c, t) /\ UNCHANGED net /\ UNCHANGED restVars
    \/ \E c \in Conns, d \in Payloads : whiteboardUpdate(c, d) /\ UNCHANGED net /\ UNCHANGED restVars
    \/ \E c \in Conns : disconnect(c) /\ UNCHANGED net /\ UNCHANGED restVars

Spec == Init /\ [][Next]_vars

\* ---------------------------------------------------------------- channels
\* what every handler but the transport leaves alone
handlerVars ==
    <<connected, liveTeachers, currentLiveTeacher, currentTeacherId, isStudent,
      rooms, sent, lastOp, originator, acceptedRun, crashed, lastPresence>>

\* n copies of frame f
Copies(f, n) == [i \in 1..n |-> f]

\* client: socket.emit('whiteboardUpdate', {teacherId, whiteboardData}) puts
\* the frame at the end of the socket's channel to the server
emitWhiteboardUpdate(c, data) ==
    /\ c \in connected
    /\ net.emitted[c] < MaxSends
    /\ net' = [net EXCEPT !.emitted[c] = @ + 1,
                          !.inbox[c] = Append(@, Frame(c, net.emitted[c] + 1, data))]
    /\ UNCHANGED handlerVars

\* the outbox of every socket after the frame f was handled with output out:
\* each emit to a socket appends the frame to that socket's channel
Outboxes(f, out) ==
    [r \in Conns |->
        net.outbox[r] \o Copies(f, CopiesIn(WhiteboardUpdateMsg(r, f.data), out))]

\* server: the frame at the head of socket c's channel is dispatched to the
\* whiteboardUpdate handler, which runs to completion
onWhiteboardUpdate(c) ==
    /\ net.inbox[c] # <<>>
    /\ whiteboardUpdate(c, Head(net.inbox[c]).data)
    /\ net' = [net EXCEPT !.inbox[c] = Tail(@),
                          !.outbox = Outboxes(Head(net.inbox[c]), sent')]

\* client: the frame at the head of the channel from the server is dispatched
\* to handleWhiteboardUpdate
handleWhiteboardUpdate(r) ==
    /\ net.outbox[r] # <<>>
    /\ net' = [net EXCEPT !.outbox[r] = Tail(@),
                          !.received[r] = Append(@, Head(net.outbox[r]))]
    /\ UNCHANGED handlerVars

\* a class in progress: every socket is open, socket 1 went live as the first
\* teacher and every other socket joined its room, the last one last
InitOrder ==
    /\ connected = Conns
    /\ liveTeachers = (TeacherNames[1] :> (Conns \ {1}))
    /\ currentLiveTeacher = TeacherNames[1]
    /\ currentTeacherId = [c \in Conns |-> TeacherNames[1]]
    /\ isStudent = [c \in Conns |-> c # 1]
    /\ rooms = [t \in TeacherIds |-> IF t = TeacherNames[1] THEN Conns ELSE {}]
    /\ sent = SocketEmit(TeacherOnline(MaxConns, TeacherNames[1]))
    /\ lastOp = Op("joinTeacherRoom", MaxConns, TeacherNames[1], Null)
    /\ originator = (TeacherNames[1] :> 1)
    /\ acceptedRun = {TeacherNames[1]}
    /\ crashed = FALSE
    /\ net = EmptyNet
    /\ lastPresence = Presence("teacherOnline", TeacherNames[1])
    /\ Session = <<>>
    /\ res = NoResponse

\* the class goes on: frames are emitted, relayed and received while sockets
\* join and leave rooms and sessions stop and start (under a non-empty id;
\* Spec covers the empty one)
NextOrder ==
    \/ \E c \in Conns, d \in WhiteboardUpdates : emitWhiteboardUpdate(c, d) /\ UNCHANGED restVars
    \/ \E c \in Conns : onWhiteboardUpdate(c) /\ UNCHANGED restVars
    \/ \E r \in Conns : handleWhiteboardUpdate(r) /\ UNCHANGED restVars
    \/ \E c \in Conns, t \in TeacherIds \ {""} : startLive(c, t) /\ UNCHANGED net /\ UNCHANGED restVars
    \/ \E c \in Conns, t \in TeacherIds : stopLive(c, t) /\ UNCHANGED net /\ UNCHANGED restVars
    \/ \E c \in Conns, t \in TeacherIds : joinTeacherRoom(c, t) /\ UNCHANGED net /\ UNCHANGED restVars
    \/ \E c \in Conns, t \in TeacherIds : leaveTeacherRoom(c, t) /\ UNCHANGED net /\ UNCHANGED restVars

SpecOrder == InitOrder /\ [][NextOrder]_vars

\* ------------------------------------------------------ clients and relay
\* JSON.stringify(paths)
Paths == {PayloadNames[i] : i \in 1..MaxPayloads}

\* the events a component listens to (socket.on); any other event that
\* arrives is dropped
Listens(role, ev) ==
    \/ role = "teacher" /\ ev = "liveError"
    \/ role = "student" /\ ev \in {"teacherOnline", "teacherOffline", "whiteboardUpdate"}

\* the channels to the clients after a handler emitted the bag out (a handler
\* emits at most one message per socket)
Down(out) ==
    [r \in Conns |->
        LET got == {m \in BagToSet(out) : m.to = r /\ Listens(net.client[r].role, m.ev)}
        IN  IF got = {} THEN net.down[r]
            ELSE Append(net.down[r], CHOOSE m \in got : TRUE)]

\* the handler the relay registered for message m of socket c
Handler(c, m) ==
    CASE m.ev = "checkTeacherStatus" -> checkTeacherStatus(c)
      [] m.ev = "startLive" -> startLive(c, m.teacherId)
      [] m.ev = "stopLive" -> stopLive(c, m.teacherId)
      [] m.ev = "joinTeacherRoom" -> joinTeacherRoom(c, m.teacherId)
      [] m.ev = "leaveTeacherRoom" -> leaveTeacherRoom(c, m.teacherId)
      [] m.ev = "whiteboardUpdate" ->
            whiteboardUpdate(c, [teacherId |-> m.teacherId,
                                 whiteboardData |-> m.whiteboardData])

\* server: the message at the head of socket c's channel is dispatched to its
\* handler, which runs to completion; what it emits goes on the channels down
onMessage(c) ==
    /\ net.up[c] # <<>>
    /\ Handler(c, Head(net.up[c]))
    /\ net' = [net EXCEPT
                 !.up[c] = Tail(@),
                 !.down = Down(sent'),
                 !.client[c].rejected =
                     IF Head(net.up[c]).ev = "startLive" THEN StartLiveRejected ELSE @]

\* messages of socket c on their way, in either direction
InFlight(c) == Len(net.up[c]) + Len(net.down[c])

\* TeacherWhiteboard: the cleanup of the socket effect, run when isLive changes
\* from the value the effect closed over
TeacherCleanup(c, isLive) ==
    IF net.client[c].isLive # isLive /\ Truthy(net.client[c].userId) /\ net.client[c].isLive
    THEN <<Emit("stopLive", net.client[c].userId, Null)>>
    ELSE <<>>

\* TeacherWhiteboard.confirmStartLive (the Start button shows while !isLive)
confirmStartLive(c, paths) ==
    /\ net.client[c].role = "teacher"
    /\ ~net.client[c].isLive
    /\ Truthy(net.client[c].userId)
    /\ InFlight(c) + 2 <= MaxInFlight
    /\ net' = [net EXCEPT
                 !.client[c].isLive = TRUE,
                 !.up[c] = @ \o <<Emit("startLive", net.client[c].userId, Null)>>
                             \o TeacherCleanup(c, TRUE)
                             \o <<Emit("whiteboardUpdate", net.client[c].userId, paths)>>]
    /\ UNCHANGED handlerVars

\* TeacherWhiteboard.confirmStopLive (the Stop button shows while isLive)
confirmStopLive(c) ==
    /\ net.client[c].role = "teacher"
    /\ net.client[c].isLive
    /\ Truthy(net.client[c].userId)
    /\ InFlight(c) + 2 <= MaxInFlight
    /\ net' = [net EXCEPT
                 !.client[c].isLive = FALSE,
                 !.up[c] = @ \o <<Emit("stopLive", net.client[c].userId, Null)>>
                             \o TeacherCleanup(c, FALSE)]
    /\ UNCHANGED handlerVars

\* TeacherWhiteboard.handleLiveError
handleLiveError(c) ==
    /\ net.client[c].role = "teacher"
    /\ net.down[c] # <<>>
    /\ Head(net.down[c]).ev = "liveError"
    /\ net' = [net EXCEPT
                 !.down[c] = Tail(@),
                 !.client[c].isLive = FALSE,
                 !.up[c] = @ \o TeacherCleanup(c, FALSE)]
    /\ UNCHANGED handlerVars

\* every socket is open with a TeacherWhiteboard mounted, nobody live yet
InitTeachers ==
    /\ connected = Conns
    /\ liveTeachers = <<>>
    /\ currentLiveTeacher = Null
    /\ currentTeacherId = [c \in Conns |-> Null]
    /\ isStudent = [c \in Conns |-> FALSE]
    /\ rooms = [t \in TeacherIds |-> {}]
    /\ sent = EmptyBag
    /\ lastOp = Op("connection", MaxConns, Null, Null)
    /\ originator = <<>>
    /\ acceptedRun = {}
    /\ crashed = FALSE
    /\ lastPresence = NoPresence
    /\ Session = <<>>
    /\ res = NoResponse
    /\ \E userId \in [Conns -> TeacherIds \ {""}] :
          net = [EmptyNet EXCEPT
                   !.client = [c \in Conns |->
                                  Client("teacher", userId[c], FALSE, FALSE, Null, FALSE)]]

NextTeachers ==
    \/ \E c \in Conns, paths \in Paths : confirmStartLive(c, paths) /\ UNCHANGED restVars
    \/ \E c \in Conns : confirmStopLive(c) /\ UNCHANGED restVars
    \/ \E c \in Conns : handleLiveError(c) /\ UNCHANGED restVars
    \/ \E c \in Conns : onMessage(c) /\ UNCHANGED restVars

SpecTeachers == InitTeachers /\ [][NextTeachers]_vars

\* StudentWhiteboard: the socket effect depends on currentTeacherId; when it
\* changes the cleanup runs with the old value and the effect runs again
StudentEffect(c, teacherId) ==
    IF net.client[c].currentTeacherId = teacherId THEN <<>>
    ELSE (IF Truthy(net.client[c].currentTeacherId)
          THEN <<Emit("leaveTeacherRoom", net.client[c].currentTeacherId, Null)>>
          ELSE <<>>)
         \o <<Emit("checkTeacherStatus", Null, Null)>>

\* StudentWhiteboard.handleTeacherOnline
handleTeacherOnline(c) ==
    /\ net.client[c].role = "student"
    /\ net.down[c] # <<>>
    /\ Head(net.down[c]).ev = "teacherOnline"
    /\ LET teacherId == Head(net.down[c]).data.teacherId
       IN  net' = [net EXCEPT
                     !.down[c] = Tail(@),
                     !.client[c].isTeacherLive = TRUE,
                     !.client[c].currentTeacherId = teacherId,
                     !.up[c] = @ \o <<Emit("joinTeacherRoom", teacherId, Null)>>
                                 \o StudentEffect(c, teacherId)]
    /\ UNCHANGED handlerVars

\* socket 1 went live as the first teacher; then every other socket was opened
\* by a StudentWhiteboard, whose effect and connect handler each emitted
\* checkTeacherStatus
InitStudent ==
    /\ connected = Conns
    /\ liveTeachers = (TeacherNames[1] :> {})
    /\ currentLiveTeacher = TeacherNames[1]
    /\ currentTeacherId = [c \in Conns |-> IF c = 1 THEN TeacherNames[1] ELSE Null]
    /\ isStudent = [c \in Conns |-> FALSE]
    /\ rooms = [t \in TeacherIds |-> IF t = TeacherNames[1] THEN {1} ELSE {}]
    /\ sent = EmptyBag
    /\ lastOp = Op("connection", MaxConns, Null, Null)
    /\ originator = (TeacherNames[1] :> 1)
    /\ acceptedRun = {TeacherNames[1]}
    /\ crashed = FALSE
    /\ lastPresence = Presence("teacherOnline", TeacherNames[1])
    /\ Session = <<>>
    /\ res = NoResponse
    /\ net = [EmptyNet EXCEPT
                !.client = [c \in Conns |->
                               IF c = 1 THEN NoClient
                               ELSE Client("student", Null, FALSE, FALSE, Null, FALSE)],
                !.up = [c \in Conns |->
                           IF c = 1 THEN <<>>
                           ELSE <<Emit("checkTeacherStatus", Null, Null),
                                  Emit("checkTeacherStatus", Null, Null)>>]]

\* the teacher's session stays as it is: the students' messages and the
\* relay's replies move while the teacher socket draws
NextStudent ==
    \/ \E c \in Conns : onMessage(c) /\ UNCHANGED restVars
    \/ \E c \in Conns : handleTeacherOnline(c) /\ UNCHANGED restVars
    \/ \E paths \in Paths :
          emitWhiteboardUpdate(1, [teacherId |-> TeacherNames[1], whiteboardData |-> paths]) /\ UNCHANGED restVars
    \/ onWhiteboardUpdate(1) /\ UNCHANGED restVars
    \/ \E r \in Conns : handleWhiteboardUpdate(r) /\ UNCHANGED restVars

\* the relay handles every message it received and the client every event
SpecStudent == InitStudent /\ [][NextStudent]_vars /\ WF_vars(NextStudent)

\* ------------------------------------------------- REST: /api/sessions
\* middleware auth: a request with a valid token goes on with req.user set,
\* any other is answered 401
auth(token) == token \in Users

\* middleware studentAuth: a student's request goes on, any other user's
\* request is rejected
studentAuth(user) == user.role = "student"

\* status of a rejection by studentAuth
Denied == {401, 403}

\* what a route does with a request: the collection afterwards and the answer
Outcome(docs, status, message) ==
    [Session |-> docs, status |-> status, message |-> message]

\* the null of a findOne that matched no document
NoSession == 0

\* Session.findOne(query)
FindOne(id, field, userId) ==
    IF MapHas(Session, id) /\ Session[id][field] = userId THEN id ELSE NoSession

\* if (!session) 404, else session.deleteOne() and the success message; an
\* error of the store goes to catch
DeleteFound(session, fails) ==
    IF fails THEN Outcome(Session, 500, "Server error")
    ELSE IF session = NoSession
         THEN Outcome(Session, 404, "Session not found or unauthorized")
         ELSE Outcome(MapDelete(Session, session), 200, "Session deleted successfully")

\* router.delete('/:id', auth, studentAuth, ...): the handler of the first
\* DELETE route
DeleteStudent(user, id, fails) ==
    DeleteFound(FindOne(id, "studentId", user.userId), fails)

\* router.delete('/:id', auth, ...): the handler of the second DELETE route
DeleteShared(user, id, fails) ==
    DeleteFound(IF user.role = "student" THEN FindOne(id, "studentId", user.userId)
                ELSE IF user.role = "teacher" THEN FindOne(id, "teacherId", user.userId)
                ELSE NoSession,
                fails)

\* the router takes the routes in the order they were registered and a
\* request reaches the second DELETE route only if the first passes it on
\* with next('route'); its middleware and handler all end the request
DeleteStudentPasses(token) == FALSE

\* DELETE /api/sessions/:id
delete(token, id, fails) ==
    /\ \E status \in Denied :
          LET out ==
                IF DeleteStudentPasses(token)
                THEN (IF ~auth(token) THEN Outcome(Session, 401, Undefined)
                      ELSE DeleteShared(token, id, fails))
                ELSE IF ~auth(token) THEN Outcome(Session, 401, Undefined)
                ELSE IF ~studentAuth(token) THEN Outcome(Session, status, Undefined)
                ELSE DeleteStudent(token, id, fails)
          IN  /\ Session' = out.Session
              /\ res' = Response("DELETE", token, id, out.status, out.message)
    /\ UNCHANGED <<handlerVars, net>>

\* POST /api/sessions: router.post('/', auth, studentAuth, ...); the saved
\* document gets a fresh _id, of which there are MaxSessions
post(token, teacherId, fails) ==
    /\ \E status \in Denied, id \in SessionIds :
          IF ~auth(token)
          THEN /\ Session' = Session
               /\ res' = Response("POST", token, 0, 401, Undefined)
          ELSE IF ~studentAuth(token)
          THEN /\ Session' = Session
               /\ res' = Response("POST", token, 0, status, Undefined)
          ELSE IF fails
          THEN /\ Session' = Session
               /\ res' = Response("POST", token, 0, 500, "Server error")
          ELSE /\ ~MapHas(Session, id)
               /\ Session' = MapSet(Session, id,
                                    [teacherId |-> teacherId, studentId |-> token.userId])
               /\ res' = Response("POST", token, id, 201, Null)
    /\ UNCHANGED <<handlerVars, net>>

NextSessions ==
    \/ \E token \in Tokens, id \in SessionIds, fails \in BOOLEAN : delete(token, id, fails)
    \/ \E token \in Tokens, teacherId \in BodyTeacherIds, fails \in BOOLEAN :
          post(token, teacherId, fails)

SpecSessions == Init /\ [][NextSessions]_vars

TypeOK ==
    /\ DOMAIN Session \subseteq SessionIds
    /\ \A id \in DOMAIN Session :
          Session[id] \in [teacherId : BodyTeacherIds, studentId : {u.userId : u \in Users}]
    /\ connected \subseteq Conns
    /\ DOMAIN liveTeachers \subseteq TeacherIds
    /\ \A t \in DOMAIN liveTeachers : liveTeachers[t] \subseteq Conns
    /\ currentLiveTeacher \in TeacherIds \cup {Null}
    /\ \A t \in TeacherIds : rooms[t] \subseteq connected
    /\ DOMAIN originator = DOMAIN liveTeachers
    /\ crashed \in BOOLEAN
    /\ crashed => connected = {}

\* ------------------------------------------------------------ properties
\* the relay variables a handler may change
relay == <<currentLiveTeacher, liveTeachers, rooms, currentTeacherId, isStudent>>

\* sockets that received event ev with payload data from the last handler
Recipients(ev, data) ==
    {m.to : m \in {x \in BagToSet(sent) : x.ev = ev /\ x.data = data}}

LastWas(name) == lastOp.op = name

\* C1: within a run of startLive messages with no stopLive or disconnect in
\* between, once one startLive was accepted every startLive naming another
\* teacher gets liveError and changes neither currentLiveTeacher, the session
\* table, the rooms nor any association.
C1_GoLiveExclusive ==
    [][\A c \in Conns, t \in TeacherIds :
          (startLive(c, t) /\ acceptedRun # {} /\ t \notin acceptedRun)
          => /\ sent' = SocketEmit(LiveError(c))
             /\ UNCHANGED <<currentLiveTeacher, liveTeachers, rooms, currentTeacherId>>]_vars

\* C2: the session table has an entry for T exactly when currentLiveTeacher
\* is T (empty when null, a single entry otherwise).
C2_TableMatchesCurrent ==
    /\ \A t \in TeacherIds : MapHas(liveTeachers, t) <=> currentLiveTeacher = t
    /\ currentLiveTeacher = Null => DOMAIN liveTeachers = {}
    /\ currentLiveTeacher # Null => Cardinality(DOMAIN liveTeachers) = 1

\* C3: when the socket whose startLive(T) created T's session closes (T a
\* non-empty id), whatever else it sent before, every subscriber leaves T's
\* room, the session is deleted, currentLiveTeacher no longer names T and
\* teacherOffline(T) goes once to every remaining socket.
C3_TeacherDisconnectTeardown ==
    [][\A c \in Conns, t \in TeacherIds \ {""} :
          (disconnect(c) /\ MapHas(liveTeachers, t) /\ originator[t] = c)
          => /\ rooms'[t] \cap liveTeachers[t] = {}
             /\ ~MapHas(liveTeachers', t)
             /\ currentLiveTeacher' # t
             /\ \A d \in connected' : CopiesIn(TeacherOffline(d, t), sent') = 1]_vars

\* C4: a whiteboardUpdate for T (a non-empty id) sent by the socket that went
\* live as T, which is not itself a subscriber, is delivered unchanged, once
\* each, to exactly the sockets of T's subscriber set and not to the sender.
C4_FanOutToSubscribers ==
    [][\A c \in Conns, d \in WhiteboardUpdates :
          (/\ whiteboardUpdate(c, d)
           /\ d.teacherId # ""
           /\ MapHas(liveTeachers, d.teacherId)
           /\ originator[d.teacherId] = c
           /\ c \notin liveTeachers[d.teacherId])
          => sent' = SetToBag({WhiteboardUpdateMsg(s, d) : s \in liveTeachers[d.teacherId]})]_vars

\* C5: when a socket B of T's subscriber set closes, B leaves the set and the
\* room, the other subscribers stay, T stays live, nothing is announced, and
\* the sockets a later update from T's socket reaches are the remaining
\* subscribers.
C5_SubscriberDisconnect ==
    [][\A b \in Conns, t \in TeacherIds :
          (disconnect(b) /\ MapHas(liveTeachers, t) /\ b \in liveTeachers[t])
          => /\ MapHas(liveTeachers', t)
             /\ liveTeachers'[t] = liveTeachers[t] \ {b}
             /\ b \notin rooms'[t]
             /\ DOMAIN liveTeachers' = DOMAIN liveTeachers
             /\ currentLiveTeacher' = currentLiveTeacher
             /\ sent' = EmptyBag
             /\ rooms'[t] \ {originator'[t]} = liveTeachers'[t] \ {originator'[t]}]_vars

\* C6: stopLive(T) handled while T has a session leaves no former subscriber
\* in T's room, deletes the entry, clears currentLiveTeacher if it was T and
\* sends teacherOffline(T) once to every open socket.
C6_StopLiveTearsDown ==
    [][\A c \in Conns, t \in TeacherIds :
          (stopLive(c, t) /\ MapHas(liveTeachers, t))
          => /\ rooms'[t] \cap liveTeachers[t] = {}
             /\ ~MapHas(liveTeachers', t)
             /\ (currentLiveTeacher = t => currentLiveTeacher' = Null)
             /\ \A d \in connected : CopiesIn(TeacherOffline(d, t), sent') = 1]_vars

\* a stopLive tore down a session that a still-open student socket had joined
C6_Witness ==
    /\ LastWas("stopLive")
    /\ Recipients("teacherOffline", TeacherStatus(lastOp.teacherId)) = connected
    /\ \E d \in connected \ {lastOp.socket} :
          isStudent[d] /\ currentTeacherId[d] = lastOp.teacherId

\* C7: stopLive(T) handled while T has no session sends nothing and leaves
\* currentLiveTeacher and the session table as they were.
C7_StopLiveIdempotent ==
    [][\A c \in Conns, t \in TeacherIds :
          (stopLive(c, t) /\ ~MapHas(liveTeachers, t))
          => /\ sent' = EmptyBag
             /\ currentLiveTeacher' = currentLiveTeacher
             /\ liveTeachers' = liveTeachers]_vars

\* a stopLive was handled for a teacher without a session, other sockets open
C7_Witness ==
    /\ LastWas("stopLive")
    /\ sent = EmptyBag
    /\ ~MapHas(liveTeachers, lastOp.teacherId)
    /\ connected # {lastOp.socket}

\* C8: joinTeacherRoom(T) handled while T has no session sends nothing, adds
\* the caller to no subscriber set and no room, and keeps its association
\* and role hint.
C8_JoinNotLiveNoOp ==
    [][\A c \in Conns, t \in TeacherIds :
          (joinTeacherRoom(c, t) /\ ~MapHas(liveTeachers, t))
          => /\ sent' = EmptyBag
             /\ UNCHANGED relay]_vars

\* a joinTeacherRoom was handled for a teacher without a session while
\* another teacher's session existed
C8_Witness ==
    /\ LastWas("joinTeacherRoom")
    /\ ~MapHas(liveTeachers, lastOp.teacherId)
    /\ DOMAIN liveTeachers # {}
    /\ \A t \in TeacherIds : lastOp.socket \notin rooms[t]

\* C9: after stopLive(T) tore T's session down a startLive(T) is accepted,
\* an accepted startLive(T) starts with an empty subscriber set, and the
\* former subscribers are out of T's room, which a socket enters only by its
\* own joinTeacherRoom(T) or startLive(T).
C9_FullResetAfterStop ==
    [][\A c \in Conns, t \in TeacherIds :
          /\ (stopLive(c, t) /\ MapHas(liveTeachers, t))
             => (~StartLiveRejected' /\ rooms'[t] \cap liveTeachers[t] = {})
          /\ (startLive(c, t) /\ ~StartLiveRejected) => liveTeachers'[t] = {}
          /\ (c \in rooms'[t] \ rooms[t]) => (joinTeacherRoom(c, t) \/ startLive(c, t))]_vars

\* C10: while T has a session, checkTeacherStatus from any socket is answered
\* with teacherOnline naming T.
C10_PresenceQuery ==
    [][\A c \in Conns, t \in TeacherIds :
          (checkTeacherStatus(c) /\ MapHas(liveTeachers, t))
          => CopiesIn(TeacherOnline(c, t), sent') = 1]_vars

\* the inbound events of ClientToServerEvents
MessageOps ==
    {"checkTeacherStatus", "startLive", "stopLive", "joinTeacherRoom",
     "leaveTeacherRoom", "whiteboardUpdate"}

\* socket d is in the subscriber set of teacher t in table m
Subscribed(m, t, d) == MapHas(m, t) /\ d \in m[t]

\* C11: a startLive handled while currentLiveTeacher is set (to any id, by any
\* socket) sends liveError to the caller only and changes neither
\* currentLiveTeacher, the session table, the rooms, any association nor any
\* role hint.
C11_RejectedGoLiveNoChange ==
    [][\A c \in Conns, t \in TeacherIds :
          (startLive(c, t) /\ currentLiveTeacher # Null)
          => /\ sent' = SocketEmit(LiveError(c))
             /\ UNCHANGED relay]_vars

\* C12: no handler ends in an uncaught exception, whatever the payload: the
\* relay process is never dead.
C12_NoOperationFatal == ~crashed

\* C13: a message from a socket that neither went live as T nor is in T's
\* subscriber set (and that does not kill the process) leaves T's session in
\* place and changes no other socket's membership of T's subscriber set or
\* room.
C13_Isolation ==
    [][\A c \in Conns, t \in TeacherIds :
          (/\ lastOp'.socket = c
           /\ lastOp'.op \in MessageOps
           /\ ~crashed'
           /\ MapHas(liveTeachers, t)
           /\ originator[t] # c
           /\ c \notin liveTeachers[t])
          => /\ MapHas(liveTeachers', t)
             /\ \A d \in Conns \ {c} :
                   /\ d \in liveTeachers'[t] <=> d \in liveTeachers[t]
                   /\ d \in rooms'[t] <=> d \in rooms[t]]_vars

\* C14: the associated teacher id of every open socket is null, or names a
\* teacher without a session, or names a session this socket started or in
\* whose subscriber set it is (stated here for the non-empty ids; the empty
\* id breaks it too, through the truthiness test of startLive).
C14_AssociationInvariant ==
    \A c \in connected :
        \/ currentTeacherId[c] = Null
        \/ currentTeacherId[c] = ""
        \/ ~MapHas(liveTeachers, currentTeacherId[c])
        \/ originator[currentTeacherId[c]] = c
        \/ c \in liveTeachers[currentTeacherId[c]]

\* C15: the whiteboardUpdate frames a socket receives from one sender for one
\* teacher arrive in the order the sender emitted them, each at most once.
C15_SenderOrder ==
    \A r \in Conns :
        \A i, j \in DOMAIN net.received[r] :
            (/\ i < j
             /\ net.received[r][i].from = net.received[r][j].from
             /\ net.received[r][i].data.teacherId = net.received[r][j].data.teacherId)
            => net.received[r][i].seq < net.received[r][j].seq

\* a socket received two frames that another socket emitted for one teacher
C15_Witness ==
    \E r \in Conns :
        /\ Len(net.received[r]) = 2
        /\ net.received[r][1].from = net.received[r][2].from
        /\ net.received[r][1].data.teacherId = net.received[r][2].data.teacherId
        /\ net.received[r][1].from # r

\* C16: the relay emits only teacherOnline, teacherOffline, whiteboardUpdate
\* and liveError, and liveError only to the caller of a startLive handled
\* while currentLiveTeacher is set.
C16_LiveErrorOnlyOnStartLive ==
    [][\A m \in BagToSet(sent') :
          /\ m.ev \in {"teacherOnline", "teacherOffline", "whiteboardUpdate", "liveError"}
          /\ m.ev = "liveError"
             => /\ lastOp'.op = "startLive"
                /\ lastOp'.socket = m.to
                /\ currentLiveTeacher # Null
                /\ UNCHANGED relay]_vars

\* a startLive was answered with liveError while the other socket is live
C16_Witness ==
    /\ LastWas("startLive")
    /\ BagIn(LiveError(lastOp.socket), sent)
    /\ \E t \in DOMAIN originator :
          originator[t] \in connected \ {lastOp.socket}

\* C17: a startLive(T) on socket C handled while currentLiveTeacher is null
\* creates T's session with an empty subscriber set, sets currentLiveTeacher
\* and C's association to T, and sends teacherOnline(T) once to every open
\* socket, C included, and nothing else.
C17_AcceptedGoLive ==
    [][\A c \in Conns, t \in TeacherIds :
          (startLive(c, t) /\ currentLiveTeacher = Null)
          => /\ MapHas(liveTeachers', t)
             /\ liveTeachers'[t] = {}
             /\ currentLiveTeacher' = t
             /\ currentTeacherId'[c] = t
             /\ sent' = SetToBag({TeacherOnline(d, t) : d \in connected})]_vars

\* a startLive was accepted with a second socket open, after an earlier
\* session had been torn down
C17_Witness ==
    /\ LastWas("startLive")
    /\ Recipients("teacherOnline", TeacherStatus(lastOp.teacherId)) = connected
    /\ Cardinality(connected) > 1
    /\ originator = (lastOp.teacherId :> lastOp.socket)
    /\ \E d \in connected \ {lastOp.socket} : isStudent[d]

\* C18: joinTeacherRoom(T) on socket C handled while T has a session adds C
\* to T's subscriber set and room, marks C as student, associates C with T,
\* sends teacherOnline(T) to C alone, and changes no other socket's
\* subscriber-set membership.
C18_JoinLiveTeacher ==
    [][\A c \in Conns, t \in TeacherIds :
          (joinTeacherRoom(c, t) /\ MapHas(liveTeachers, t))
          => /\ liveTeachers' = [liveTeachers EXCEPT ![t] = @ \cup {c}]
             /\ rooms' = [rooms EXCEPT ![t] = @ \cup {c}]
             /\ isStudent'[c]
             /\ currentTeacherId'[c] = t
             /\ sent' = SocketEmit(TeacherOnline(c, t))]_vars

\* a socket joined a live teacher whose subscriber set already held another
\* open socket
C18_Witness ==
    /\ LastWas("joinTeacherRoom")
    /\ Subscribed(liveTeachers, lastOp.teacherId, lastOp.socket)
    /\ \E d \in connected \ {lastOp.socket} : d \in liveTeachers[lastOp.teacherId]
    /\ Recipients("teacherOnline", TeacherStatus(lastOp.teacherId)) = {lastOp.socket}

\* C19: after leaveTeacherRoom(T) on socket C, C is in neither T's subscriber
\* set nor T's room, C's association is cleared if it was T, the sessions,
\* currentLiveTeacher and every other socket's memberships are as before and
\* nothing is sent, whether or not T has a session or C had joined; and a
\* socket enters T's room (the only way to receive T's updates) only by its
\* own joinTeacherRoom(T) or accepted startLive(T).
C19_Leave ==
    [][\A c \in Conns, t \in TeacherIds :
          /\ leaveTeacherRoom(c, t)
             => /\ c \notin rooms'[t]
                /\ ~Subscribed(liveTeachers', t, c)
                /\ currentTeacherId'[c] =
                      IF currentTeacherId[c] = t THEN Null ELSE currentTeacherId[c]
                /\ DOMAIN liveTeachers' = DOMAIN liveTeachers
                /\ currentLiveTeacher' = currentLiveTeacher
                /\ \A d \in Conns \ {c}, u \in TeacherIds :
                      /\ Subscribed(liveTeachers', u, d) <=> Subscribed(liveTeachers, u, d)
                      /\ d \in rooms'[u] <=> d \in rooms[u]
                      /\ currentTeacherId'[d] = currentTeacherId[d]
                /\ sent' = EmptyBag
          /\ (c \in rooms'[t] \ rooms[t])
             => (joinTeacherRoom(c, t) \/ (startLive(c, t) /\ ~StartLiveRejected))
          /\ \A m \in BagToSet(sent') :
                (m.ev = "whiteboardUpdate" /\ m.to = c)
                => c \in rooms[m.data.teacherId]]_vars

\* a socket that was in the room of a teacher without a session left it
C19_Witness ==
    /\ LastWas("leaveTeacherRoom")
    /\ ~MapHas(liveTeachers, lastOp.teacherId)
    /\ \E d \in connected \ {lastOp.socket} : d \in rooms[lastOp.teacherId]
    /\ isStudent[lastOp.socket]

\* C20: checkTeacherStatus changes no relay state, sends at most one message
\* and only to the requester, sends nothing when currentLiveTeacher is null,
\* and a repetition would send the same reply.
C20_CheckStatusReadOnly ==
    [][\A c \in Conns :
          checkTeacherStatus(c)
          => /\ UNCHANGED relay
             /\ BagCardinality(sent') <= 1
             /\ \A m \in BagToSet(sent') : m.to = c
             /\ currentLiveTeacher = Null => sent' = EmptyBag
             /\ CheckTeacherStatusSent(c)' = sent']_vars

\* a checkTeacherStatus was answered with one teacherOnline while another
\* socket was open
C20_Witness ==
    /\ LastWas("checkTeacherStatus")
    /\ sent = SocketEmit(TeacherOnline(lastOp.socket, currentLiveTeacher))
    /\ connected # {lastOp.socket}

\* C21: the subscriber membership is a set: joining T again while T is live
\* leaves the socket in T's set (a second time changes nothing), an update
\* from the socket that went live as T reaches each subscriber once, and one
\* leaveTeacherRoom(T) or one disconnect takes the socket out of the set.
C21_MembershipIsSet ==
    [][/\ \A c \in Conns, t \in TeacherIds :
             /\ (joinTeacherRoom(c, t) /\ Subscribed(liveTeachers, t, c))
                => (liveTeachers' = liveTeachers /\ rooms' = rooms)
             /\ leaveTeacherRoom(c, t) => ~Subscribed(liveTeachers', t, c)
             /\ disconnect(c) => ~Subscribed(liveTeachers', t, c)
       /\ \A c \in Conns, d \in WhiteboardUpdates :
             (/\ whiteboardUpdate(c, d)
              /\ MapHas(liveTeachers, d.teacherId)
              /\ originator[d.teacherId] = c)
             => \A r \in liveTeachers[d.teacherId] \ {c} :
                   CopiesIn(WhiteboardUpdateMsg(r, d), sent') = 1]_vars

\* C22: every socket to which a whiteboardUpdate for T is delivered is in T's
\* subscriber set at that moment (so never the socket that went live as T,
\* unless it subscribed to itself).
C22_UpdatesReachStudentsOnly ==
    [][\A m \in BagToSet(sent') :
          m.ev = "whiteboardUpdate"
          => Subscribed(liveTeachers, m.data.teacherId, m.to)]_vars

\* C25: when no socket is open, no teacher is live and the session table is
\* empty (stated here for the non-empty ids; a session of the empty id is
\* orphaned too, through the truthiness test of disconnect).
C25_NoOrphanedSession ==
    connected = {}
    => /\ currentLiveTeacher \in {Null, ""}
       /\ DOMAIN liveTeachers \subseteq {""}

\* C26: the disconnect of a socket deletes the session of a (non-empty)
\* teacher id T, or announces teacherOffline(T), only if that socket is the
\* one whose startLive(T) created the session.
C26_OnlyOriginatorDisconnectEnds ==
    [][\A c \in Conns, t \in TeacherIds \ {""} :
          (/\ disconnect(c)
           /\ MapHas(liveTeachers, t)
           /\ \/ ~MapHas(liveTeachers', t)
              \/ \E d \in Conns : BagIn(TeacherOffline(d, t), sent'))
          => originator[t] = c]_vars

\* C27: the room of every (non-empty) teacher id T holds exactly T's
\* subscriber set plus the socket that started T's session while T has a
\* session, and nobody otherwise.
C27_RoomMatchesSession ==
    \A t \in TeacherIds \ {""} :
        rooms[t] = IF MapHas(liveTeachers, t)
                   THEN liveTeachers[t] \cup ({originator[t]} \ {Gone})
                   ELSE {}

\* C28: while a session exists whose teacher socket is still open, whatever
\* its id, every startLive is answered with liveError and every
\* checkTeacherStatus with teacherOnline naming the id of such a session.
C28_ExclusiveForEveryId ==
    [][\A c \in Conns :
          (\E id \in DOMAIN liveTeachers : originator[id] \in connected)
          => /\ \A t \in TeacherIds :
                   startLive(c, t) => sent' = SocketEmit(LiveError(c))
             /\ checkTeacherStatus(c)
                => \E id \in DOMAIN liveTeachers :
                      /\ originator[id] \in connected
                      /\ sent' = SocketEmit(TeacherOnline(c, id))]_vars

\* C29: the presence announcements alternate: teacherOnline is announced only
\* when the last announcement was not a teacherOnline, and teacherOffline(T)
\* only when the last announcement was teacherOnline(T).
C29_PresenceAlternates ==
    [][/\ \A c \in Conns, t \in TeacherIds :
             /\ (startLive(c, t) /\ ~StartLiveRejected)
                => lastPresence.ev # "teacherOnline"
             /\ (stopLive(c, t) /\ MapHas(liveTeachers, t))
                => lastPresence = Presence("teacherOnline", t)
       /\ \A c \in Conns :
             (disconnect(c) /\ DisconnectAsTeacher(c))
             => lastPresence = Presence("teacherOnline", currentTeacherId[c])]_vars

\* C24: a message of a teacher client whose last startLive was answered with
\* liveError never deletes a session nor announces teacherOffline.
C24_RejectedClientKeepsSession ==
    [][\A c \in Conns :
          (onMessage(c) /\ net.client[c].rejected)
          => /\ DOMAIN liveTeachers \subseteq DOMAIN liveTeachers'
             /\ \A m \in BagToSet(sent') : m.ev # "teacherOffline"]_vars

\* C30: when no message is in flight, every teacher client whose isLive is
\* true has the userId that is the relay's currentLiveTeacher.
C30_ClientAndRelayAgree ==
    (\A c \in Conns : InFlight(c) = 0)
    => \A c \in connected :
          (net.client[c].role = "teacher" /\ net.client[c].isLive)
          => net.client[c].userId = currentLiveTeacher

\* C23: with a teacher live and its session unchanged, the exchange between a
\* student client and the relay comes to an end: a state with no message in
\* flight is reached.
C23_JoinHandshakeTerminates ==
    <>(\A c \in Conns : InFlight(c) = 0)

\* C31: a stopLive(T) handled while no session for T exists leaves the session
\* table, currentLiveTeacher, the role hints and the other sockets'
\* associations alone and sends nothing; if the caller's association was T it
\* is cleared and the caller leaves room T, otherwise the relay state is
\* unchanged.
C31_StopLiveWithoutSession ==
    [][\A c \in Conns, t \in TeacherIds :
          (stopLive(c, t) /\ ~MapHas(liveTeachers, t))
          => /\ sent' = EmptyBag
             /\ connected' = connected
             /\ IF currentTeacherId[c] = t
                THEN /\ currentTeacherId' = [currentTeacherId EXCEPT ![c] = Null]
                     /\ rooms' = [rooms EXCEPT ![t] = @ \ {c}]
                     /\ UNCHANGED <<currentLiveTeacher, liveTeachers, isStudent>>
                ELSE UNCHANGED relay]_vars

\* a stopLive(T) of a socket still in room T was handled after T's session
\* had been ended: nothing was sent and the caller is out of the room
C31_Witness ==
    /\ LastWas("stopLive")
    /\ sent = EmptyBag
    /\ ~MapHas(liveTeachers, lastOp.teacherId)
    /\ lastPresence = Presence("teacherOffline", lastOp.teacherId)
    /\ currentTeacherId[lastOp.socket] = Null
    /\ lastOp.socket \notin rooms[lastOp.teacherId]
    /\ \E d \in connected \ {lastOp.socket} : currentTeacherId[d] # Null

\* C32: when a socket whose associated teacher id is null disconnects,
\* currentLiveTeacher, the session table with every subscriber set are
\* unchanged and no message is sent.
C32_UnassociatedDisconnectNoOp ==
    [][\A c \in Conns :
          (disconnect(c) /\ currentTeacherId[c] = Null)
          => /\ currentLiveTeacher' = currentLiveTeacher
             /\ liveTeachers' = liveTeachers
             /\ sent' = EmptyBag]_vars

\* a socket closed while another socket's session was live: the session is
\* still there, its teacher still in its room, and nothing was announced
C32_Witness ==
    /\ LastWas("disconnect")
    /\ sent = EmptyBag
    /\ currentLiveTeacher \in DOMAIN liveTeachers
    /\ originator[currentLiveTeacher] \in connected
    /\ lastOp.socket \notin connected
    /\ rooms[currentLiveTeacher] = {originator[currentLiveTeacher]}
    /\ lastPresence = Presence("teacherOnline", currentLiveTeacher)

\* C35: the role hint isStudent of an open socket is true only if the socket
\* is a member of the subscriber set of some session.
C35_RoleHintTracksMembership ==
    \A c \in connected :
        isStudent[c] => \E t \in DOMAIN liveTeachers : c \in liveTeachers[t]

\* the user is the session's studentId as a student or its teacherId as a
\* teacher
Owns(user, id) ==
    /\ MapHas(Session, id)
    /\ \/ user.role = "student" /\ Session[id].studentId = user.userId
       \/ user.role = "teacher" /\ Session[id].teacherId = user.userId

\* C33: a DELETE /api/sessions/:id of an authenticated teacher for a session
\* whose teacherId is the teacher's user id removes the session and answers
\* 'Session deleted successfully', as a student's request for an own session
\* does (the store working).
C33_DeleteWorksForBothRoles ==
    [][\A token \in Users, id \in SessionIds :
          (delete(token, id, FALSE) /\ Owns(token, id))
          => /\ ~MapHas(Session', id)
             /\ res'.status = 200
             /\ res'.message = "Session deleted successfully"]_vars

\* C34: a DELETE /api/sessions/:id removes a session only if its authenticated
\* user owns the session; every other request of an authenticated user is
\* answered 404 'Session not found or unauthorized' and leaves the collection
\* unchanged (the store working).
C34_DeleteOwnerOnly ==
    [][\A token \in Users, id \in SessionIds :
          (delete(token, id, FALSE) /\ ~Owns(token, id))
          => /\ Session' = Session
             /\ res'.status = 404
             /\ res'.message = "Session not found or unauthorized"]_vars

====
